---- MODULE Spec2Model ----
(***************************************************************************)
(* Job orchestration and polling state machine of basel-ax/2xiang:         *)
(* the images table, the batch Submission and Polling workflows of         *)
(* cmd/example/main.go, the cron scheduler with its shared mutex, and the  *)
(* single-row claim queries of the Postgres repository.                    *)
(***************************************************************************)
EXTENDS Integers, Sequences, FiniteSets, TLC

\* ------------------------------------------------------------------ bounds
\* rows of the images table
NumImages == 1
\* goroutines per workflow: firings of one cron entry that are alive at a
\* time, or program instances sharing the table
MaxRuns == 2

\* ------------------------------------------------------- program constants
\* "Check status three times": for checkCount := 1; checkCount <= 3
MaxChecks == 3

Ids == 1..NumImages

\* correlation ids the remote service hands out
UUIDs == {"u1"}
\* result lists of a status response (resp.Files)
FileLists == {<<>>, <<"b1", "b2">>}
\* const maxPromptLength = 999
maxPromptLength == 999
\* a prompt of 1500 code points, and the string of its first 999
LongPrompt == "p1500"
LongPromptPrefix == "p999"
\* prompts of the rows inserted by the creator
Prompts == {"", "sunset", LongPrompt}

Statuses == {"ReadyToGenerate", "Generate", "ReadyToPublish", "Failed"}

\* goroutines: the generator and the processor workflows
GenProcs == {<<"gen", k>> : k \in 1..MaxRuns}
ChkProcs == {<<"proc", k>> : k \in 1..MaxRuns}
Procs == GenProcs \cup ChkProcs
\* holder of a row lock that nobody holds
NoProc == <<"none", 0>>

\* domain.Image as the workflows see it (ID 0: no image)
NoImg == [ID |-> 0, Prompt |-> "", UUID |-> ""]
\* domain.ImageGenerationResponse, and the features of an error text the
\* workflows look for (kind "ok": err == nil)
NoResp == [kind |-> "none", code |-> 0, initial |-> FALSE, notFound |-> FALSE,
           UUID |-> "", Status |-> "", Files |-> <<>>]
\* no request built yet
NoReq == [Prompt |-> "", Style |-> "", NegativePrompt |-> ""]
\* no library operation under way
NoCall == [op |-> "none"]
NoResult == [kind |-> "none"]

VARIABLES
    images,      \* the images table: id -> [prompt, uuid, status, base64]
    rowLock,     \* id -> the caller whose open statement holds the row lock
    mode,        \* "continuous" | "cron" | "claim" (flags of main)
    cancelled,   \* ctx.Done() is closed
    cronStopped, \* c.Stop() was called
    cronMutex,   \* cronMutex is locked
    pc,          \* position of each goroutine
    batch,       \* images still to be ranged over
    cur,         \* img of the current iteration
    checkCount,  \* checkCount of the attempt loop
    resp,        \* resp / err of the last remote call
    preImg,      \* history: the row when the stage started on it
    storeFailed, \* history: some store write has failed
    handled,     \* history: how the last attempt of this row ended
    polls,       \* history: status calls made for this row in this tick
    seen,        \* history: what those status calls returned, taken together
    lateTick,    \* history: a tick was begun with ctx.Done() closed
    accepted,    \* history: ids of the rows whose submission the remote service
                 \* accepted, with no 404 answer to a status call since
    env,         \* the environment after godotenv.Load()
    cfg,         \* *config.Config as config.Load() returned it
    req,         \* req of the current iteration (domain.ImageGenerationRequest)
    call,        \* a library operation called on its own: name and arguments
    result       \* what that operation has returned or done so far

vars == <<images, rowLock, mode, cancelled, cronStopped, cronMutex, pc, batch,
          cur, checkCount, resp, preImg, storeFailed, handled, polls, seen,
          lateTick, accepted, env, cfg, req, call, result>>

locals == <<batch, cur, checkCount, resp, req>>
notes == <<polls, seen, lateTick, accepted>>
hist == <<preImg, storeFailed, handled, notes>>
conf == <<env, cfg>>
lib == <<call, result>>
\* what no step of a workflow changes: flags, context, scheduler,
\* configuration
sched == <<mode, cancelled, cronStopped, cronMutex, conf, lib>>


\* ------------------------------------------------------------- the store
\* mutant of UpdateStatus: the statement matches no row
UpdateStatusNoRow(tbl, id, status) == tbl

\* UPDATE images SET status = $1, updated_at = $2 WHERE id = $3
UpdateStatus(tbl, id, status) == [tbl EXCEPT ![id].status = status]

\* mutant of UpdateUUID: the statement also sets the prompt
UpdateUUIDAndPrompt(tbl, id, uuid) ==
    [tbl EXCEPT ![id].uuid = uuid, ![id].prompt = ""]

\* UPDATE images SET uuid = $1, updated_at = $2 WHERE id = $3
UpdateUUID(tbl, id, uuid) == [tbl EXCEPT ![id].uuid = uuid]

\* UPDATE images SET base64 = $1, updated_at = $2 WHERE id = $3
UpdateBase64(tbl, id, base64) == [tbl EXCEPT ![id].base64 = base64]

\* outcomes of a store call made with ctx: a cancelled context fails every
\* QueryContext / ExecContext, otherwise the call succeeds or the
\* connection is lost
StoreOutcomes == IF cancelled THEN {FALSE} ELSE BOOLEAN

\* ORDER BY created_at ASC: rows are created in id order
RECURSIVE Ordered(_)
Ordered(S) ==
    IF S = {} THEN <<>>
    ELSE LET m == CHOOSE x \in S : \A y \in S : x <= y
         IN <<m>> \o Ordered(S \ {m})

\* mutant of EligibleToGenerate: the prompt is not looked at
EligibleToGenerateAnyPrompt(tbl) ==
    {i \in DOMAIN tbl : tbl[i].status = "ReadyToGenerate"}

\* WHERE status = 'ReadyToGenerate' AND prompt IS NOT NULL AND prompt != ''
EligibleToGenerate(tbl) ==
    {i \in DOMAIN tbl : tbl[i].status = "ReadyToGenerate" /\ tbl[i].prompt # ""}

\* mutant of EligibleToCheck: the status is not looked at
EligibleToCheckAnyStatus(tbl) ==
    {i \in DOMAIN tbl : tbl[i].uuid # ""}

\* WHERE status = 'Generate' AND uuid IS NOT NULL AND uuid != ''
EligibleToCheck(tbl) ==
    {i \in DOMAIN tbl : tbl[i].status = "Generate" /\ tbl[i].uuid # ""}

\* claimAllReadyToGenerate: every eligible row, SELECT id, prompt
GetAllReadyToGenerate(tbl) ==
    LET o == Ordered(EligibleToGenerate(tbl))
    IN [k \in 1..Len(o) |-> [ID |-> o[k], Prompt |-> tbl[o[k]].prompt, UUID |-> ""]]

\* claimAllInGenerate: every eligible row, SELECT id, uuid
GetAllReadyToCheck(tbl) ==
    LET o == Ordered(EligibleToCheck(tbl))
    IN [k \in 1..Len(o) |-> [ID |-> o[k], Prompt |-> "", UUID |-> tbl[o[k]].uuid]]

\* ------------------------------------------------------ the remote service
ErrResp(code, initial, uuid, notFound) ==
    [kind |-> "err", code |-> code, initial |-> initial, notFound |-> notFound,
     UUID |-> uuid, Status |-> "", Files |-> <<>>]

OkResp(uuid, status, files) ==
    [kind |-> "ok", code |-> 200, initial |-> FALSE, notFound |-> FALSE,
     UUID |-> uuid, Status |-> status, Files |-> files]

\* a call made with a cancelled ctx fails before any response is read
CtxError == ErrResp(0, FALSE, "", FALSE)

\* Client.GenerateImage: 200 decodes uuid and status from the body (a body
\* without uuid decodes to ""); any other code is an error quoting code and body
SubmitOutcomes ==
    IF cancelled THEN {CtxError}
    ELSE {OkResp(u, "INITIAL", <<>>) : u \in UUIDs \cup {""}}
         \cup {ErrResp(c, i, u, FALSE) :
                 c \in {201, 500}, i \in BOOLEAN, u \in UUIDs \cup {""}}

\* Client.CheckGenerationStatus: 200 decodes status and result.files; any
\* other code is an error quoting the body ("status":404 when the id is unknown)
PollOutcomes ==
    IF cancelled THEN {CtxError}
    ELSE {OkResp("", "DONE", f) : f \in FileLists}
         \cup {OkResp("", st, <<>>) : st \in {"FAILED", "PROCESSING"}}
         \cup {ErrResp(404, FALSE, "", TRUE), ErrResp(500, FALSE, "", FALSE)}

\* strings.Contains(err.Error(), "status code: 201") &&
\* strings.Contains(err.Error(), "INITIAL")
IsInitialResponse(r) == r.code = 201 /\ r.initial

\* mutant of UuidMatches: the pattern finds nothing
UuidNeverMatches(r) == FALSE

\* regexp `"uuid":"([^"]+)"`: len(uuidMatch) > 1
UuidMatches(r) == r.UUID # ""

\* mutant of IsNotFound: every error of the status call is taken for a 404
AnyErrorIsNotFound(r) == r.kind = "err"

\* strings.Contains(err.Error(), "\"status\":404")
IsNotFound(r) == r.notFound

\* ------------------------------------------- history of the row in hand
StartRow(p, id) ==
    /\ preImg' = [preImg EXCEPT ![p] = images[id]]
    /\ UNCHANGED <<storeFailed, lateTick, accepted>>
    /\ handled' = [handled EXCEPT ![p] = "none"]
    /\ polls' = [polls EXCEPT ![p] = 0]
    /\ seen' = [seen EXCEPT ![p] = "none"]

ClearRow(p) ==
    /\ preImg' = [preImg EXCEPT ![p] = images[1]]
    /\ UNCHANGED <<storeFailed, lateTick, accepted>>
    /\ handled' = [handled EXCEPT ![p] = "none"]
    /\ polls' = [polls EXCEPT ![p] = 0]
    /\ seen' = [seen EXCEPT ![p] = "none"]

\* the write failed: log it, remember it
WriteFailed(p, how) ==
    /\ storeFailed' = TRUE
    /\ handled' = [handled EXCEPT ![p] = how]
    /\ UNCHANGED <<images, preImg, notes>>

\* ------------------------------------------------------- configuration
\* config.MaxAttempts = 30 // default value
DefaultMaxAttempts == 30

\* the values of .env.example; an integer setting is the text's value when
\* strconv.Atoi accepts it (numeric)
ExampleEnv ==
    [DEFAULT_STYLE |-> "ANIME", DEFAULT_NEGATIVE_PROMPT |-> "worst quality",
     DEFAULT_MAX_ATTEMPTS |-> [numeric |-> TRUE, val |-> 30]]

\* config.Load: DefaultStyle is os.Getenv("DEFAULT_STYLE"); no statement
\* assigns DefaultNegativePrompt, which keeps the zero value ""; MaxAttempts
\* is strconv.Atoi(os.Getenv("DEFAULT_MAX_ATTEMPTS")), or 30 when that fails
Load(e) ==
    [DefaultStyle |-> e.DEFAULT_STYLE,
     DefaultNegativePrompt |-> "",
     MaxAttempts |-> IF e.DEFAULT_MAX_ATTEMPTS.numeric
                     THEN e.DEFAULT_MAX_ATTEMPTS.val ELSE DefaultMaxAttempts]

\* utf8.RuneCountInString of the prompts that are told by name
CodePoints(prompt) ==
    IF prompt = "" THEN 0
    ELSE IF prompt = "sunset" THEN 6
    ELSE IF prompt = LongPrompt THEN 1500
    ELSE maxPromptLength

\* truncatePrompt(img.Prompt, maxPromptLength) on those prompts: the prompt
\* itself within the limit, else the string of its first 999 code points
TruncatedPrompt(prompt) ==
    IF CodePoints(prompt) <= maxPromptLength THEN prompt ELSE LongPromptPrefix

\* req := domain.ImageGenerationRequest{Prompt: img.Prompt, ...,
\* Style: cfg.DefaultStyle, NegativePrompt: cfg.DefaultNegativePrompt}
Request(c, img) ==
    [Prompt |-> img.Prompt, Style |-> c.DefaultStyle,
     NegativePrompt |-> c.DefaultNegativePrompt]

\* --------------------------------------------- generateImagesWorkflow
\* case <-ticker.C: images, err := repo.GetAllReadyToGenerate(ctx)
GenTick(p) ==
    /\ p \in GenProcs /\ pc[p] = "select"
    /\ \E ok \in StoreOutcomes :
         IF ok /\ Len(GetAllReadyToGenerate(images)) > 0
         THEN /\ batch' = [batch EXCEPT ![p] = GetAllReadyToGenerate(images)]
              /\ pc' = [pc EXCEPT ![p] = "range"]
         ELSE UNCHANGED <<batch, pc>>
    /\ lateTick' = (lateTick \/ cancelled)
    /\ UNCHANGED <<images, rowLock, sched, cur, checkCount, resp, req, preImg,
                   storeFailed, handled, polls, seen, accepted>>

\* for _, img := range images
GenRange(p) ==
    /\ p \in GenProcs /\ pc[p] = "range"
    /\ IF batch[p] = <<>>
       THEN /\ pc' = [pc EXCEPT ![p] = "select"]
            /\ cur' = [cur EXCEPT ![p] = NoImg]
            /\ ClearRow(p)
            /\ UNCHANGED batch
       ELSE /\ pc' = [pc EXCEPT ![p] = "submit"]
            /\ cur' = [cur EXCEPT ![p] = Head(batch[p])]
            /\ batch' = [batch EXCEPT ![p] = Tail(batch[p])]
            /\ StartRow(p, Head(batch[p]).ID)
    /\ resp' = [resp EXCEPT ![p] = NoResp]
    /\ req' = [req EXCEPT ![p] = NoReq]
    /\ UNCHANGED <<images, rowLock, sched, checkCount>>

\* resp and err are read again only on the branches that write the uuid or
\* the first file; elsewhere the value is dead and is dropped from the state
Kept(r, branch) ==
    IF branch \in {"setUUID", "saveBase64"} THEN r ELSE NoResp

\* mutant of SubmitBranch: 201 with INITIAL is taken without looking for
\* the uuid
SubmitBranchNoUuidCheck(r) ==
    IF r.kind = "err"
    THEN IF IsInitialResponse(r) THEN "setUUID" ELSE "setFailed"
    ELSE "setUUID"

\* the branch taken on the outcome of service.GenerateImage
SubmitBranch(r) ==
    IF r.kind = "err"
    THEN IF IsInitialResponse(r) /\ UuidMatches(r) THEN "setUUID" ELSE "setFailed"
    ELSE "setUUID"

\* what the remote service answered to the submit call: 200 with the json
\* of the new generation, a 201 whose body holds "status":"INITIAL" and
\* "uuid":"...", or any other error
SubmitNote(r) ==
    IF r.kind = "ok" THEN "accepted"
    ELSE IF r.code = 201 /\ r.initial /\ r.UUID # "" THEN "initial" ELSE "error"

\* the service has the job of row id once it answered 200, or 201 with
\* INITIAL and the uuid
AcceptedAfterSubmit(id, r) ==
    IF SubmitNote(r) \in {"accepted", "initial"} THEN accepted \cup {id} ELSE accepted

\* img.Prompt = truncatePrompt(img.Prompt, maxPromptLength); req := ...;
\* resp, err := service.GenerateImage(ctx, req)
GenSubmit(p) ==
    /\ p \in GenProcs /\ pc[p] = "submit"
    /\ \E r \in SubmitOutcomes :
         /\ resp' = [resp EXCEPT ![p] = Kept(r, SubmitBranch(r))]
         /\ pc' = [pc EXCEPT ![p] = SubmitBranch(r)]
         /\ handled' = [handled EXCEPT ![p] = SubmitNote(r)]
         /\ accepted' = AcceptedAfterSubmit(cur[p].ID, r)
    /\ cur' = [cur EXCEPT ![p].Prompt = TruncatedPrompt(cur[p].Prompt)]
    /\ req' = [req EXCEPT ![p] = Request(cfg, cur'[p])]
    /\ UNCHANGED <<images, rowLock, sched, batch, checkCount, preImg,
                   storeFailed, polls, seen, lateTick>>

\* mutant of GenSetUUID: the status is written although the uuid write failed
GenSetUUIDThenStatus(p) ==
    /\ p \in GenProcs /\ pc[p] = "setUUID"
    /\ \E ok \in StoreOutcomes :
         IF ok
         THEN /\ images' = UpdateUUID(images, cur[p].ID, resp[p].UUID)
              /\ UNCHANGED hist
         ELSE WriteFailed(p, "storeError")
    /\ pc' = [pc EXCEPT ![p] = "setGenerate"]
    /\ UNCHANGED <<rowLock, sched, locals>>

\* repo.UpdateUUID(ctx, img.ID, uuid): on error log and continue
GenSetUUID(p) ==
    /\ p \in GenProcs /\ pc[p] = "setUUID"
    /\ \E ok \in StoreOutcomes :
         IF ok
         THEN /\ images' = UpdateUUID(images, cur[p].ID, resp[p].UUID)
              /\ pc' = [pc EXCEPT ![p] = "setGenerate"]
              /\ UNCHANGED hist
         ELSE /\ WriteFailed(p, "storeError")
              /\ pc' = [pc EXCEPT ![p] = "range"]
    /\ UNCHANGED <<rowLock, sched, locals>>

\* repo.UpdateStatus(ctx, img.ID, "Generate"): on error log and continue
GenSetGenerate(p) ==
    /\ p \in GenProcs /\ pc[p] = "setGenerate"
    /\ \E ok \in StoreOutcomes :
         IF ok
         THEN /\ images' = UpdateStatus(images, cur[p].ID, "Generate")
              /\ handled' = [handled EXCEPT ![p] = "submitted"]
              /\ UNCHANGED <<preImg, storeFailed, notes>>
         ELSE WriteFailed(p, "storeError")
    /\ pc' = [pc EXCEPT ![p] = "range"]
    /\ UNCHANGED <<rowLock, sched, locals>>

\* repo.UpdateStatus(ctx, img.ID, "Failed"); continue
GenSetFailed(p) ==
    /\ p \in GenProcs /\ pc[p] = "setFailed"
    /\ \E ok \in StoreOutcomes :
         IF ok
         THEN /\ images' = UpdateStatus(images, cur[p].ID, "Failed")
              /\ handled' = [handled EXCEPT ![p] = "rejected"]
              /\ UNCHANGED <<preImg, storeFailed, notes>>
         ELSE WriteFailed(p, "storeError")
    /\ pc' = [pc EXCEPT ![p] = "range"]
    /\ UNCHANGED <<rowLock, sched, locals>>

\* ------------------------------------- processGeneratedImagesWorkflow
\* "break" inside "switch resp.Status" ends the switch statement: control
\* goes on to the post statement of the attempt loop
SwitchBreak == "next"

\* mutant of LoopBreak: the break of the 404 branch ends no loop
LoopBreakStaysInLoop == "next"

\* "break" in the 404 branch, outside the switch, ends the attempt loop
LoopBreak == "range"

\* mutant of LoopContinue: the attempt is made again without counting
LoopContinueRetries == "poll"

\* "continue" in the attempt loop: checkCount++ and the loop condition
LoopContinue == "next"

\* case <-ticker.C: images, err := repo.GetAllReadyToCheck(ctx)
ChkTick(p) ==
    /\ p \in ChkProcs /\ pc[p] = "select"
    /\ \E ok \in StoreOutcomes :
         IF ok /\ Len(GetAllReadyToCheck(images)) > 0
         THEN /\ batch' = [batch EXCEPT ![p] = GetAllReadyToCheck(images)]
              /\ pc' = [pc EXCEPT ![p] = "range"]
         ELSE UNCHANGED <<batch, pc>>
    /\ lateTick' = (lateTick \/ cancelled)
    /\ UNCHANGED <<images, rowLock, sched, cur, checkCount, resp, req, preImg,
                   storeFailed, handled, polls, seen, accepted>>

\* for _, img := range images { for checkCount := 1; ...
ChkRange(p) ==
    /\ p \in ChkProcs /\ pc[p] = "range"
    /\ IF batch[p] = <<>>
       THEN /\ pc' = [pc EXCEPT ![p] = "select"]
            /\ cur' = [cur EXCEPT ![p] = NoImg]
            /\ checkCount' = [checkCount EXCEPT ![p] = 0]
            /\ ClearRow(p)
            /\ UNCHANGED batch
       ELSE /\ pc' = [pc EXCEPT ![p] = "poll"]
            /\ cur' = [cur EXCEPT ![p] = Head(batch[p])]
            /\ batch' = [batch EXCEPT ![p] = Tail(batch[p])]
            /\ checkCount' = [checkCount EXCEPT ![p] = 1]
            /\ StartRow(p, Head(batch[p]).ID)
    /\ resp' = [resp EXCEPT ![p] = NoResp]
    /\ UNCHANGED <<images, rowLock, sched, req>>

\* mutant of FirstFile: the last file of the list is taken
LastFile(files) == files[Len(files)]

\* resp.Files[0]
FirstFile(files) == files[1]

\* mutant of PollBranch: DONE marks the job without saving the result
PollBranchNoSave(r, count) ==
    IF r.kind = "err"
    THEN IF IsNotFound(r) THEN "resetUUID" ELSE LoopContinue
    ELSE IF r.Status = "DONE"
         THEN IF Len(r.Files) > 0 THEN "setPublish" ELSE "next"
         ELSE IF r.Status = "FAILED"
              THEN "setFailed"
              ELSE IF count < MaxChecks THEN "sleep" ELSE "next"

\* the branch taken on the outcome of service.CheckGenerationStatus
PollBranch(r, count) ==
    IF r.kind = "err"
    THEN IF IsNotFound(r) THEN "resetUUID" ELSE LoopContinue
    ELSE IF r.Status = "DONE"
         THEN IF Len(r.Files) > 0 THEN "saveBase64" ELSE "next"
         ELSE IF r.Status = "FAILED"
              THEN "setFailed"
              ELSE IF count < MaxChecks THEN "sleep" ELSE "next"

\* what the attempt amounts to when it writes nothing
PollNote(r) ==
    IF r.kind = "err" THEN (IF r.notFound THEN "none" ELSE "error")
    ELSE IF r.Status = "DONE" THEN (IF Len(r.Files) > 0 THEN "none" ELSE "empty")
         ELSE IF r.Status = "FAILED" THEN "none" ELSE "progress"

\* the kind of answer a status call gave: an error that is not the 404
\* signature, a status that is neither DONE nor FAILED, or anything else
PollKind(r) ==
    IF r.kind = "err" THEN (IF r.notFound THEN "other" ELSE "error")
    ELSE IF r.Status \in {"DONE", "FAILED"} THEN "other" ELSE "progress"

\* the answers of this tick so far taken together: all of one kind, or mixed
Together(sofar, kind) ==
    IF sofar = "none" \/ sofar = kind THEN kind ELSE "mixed"

\* the service answered that it does not know the uuid of row id
AcceptedAfterPoll(id, r) ==
    IF r.kind = "err" /\ r.notFound THEN accepted \ {id} ELSE accepted

\* resp, err := service.CheckGenerationStatus(ctx, img.UUID)
ChkPoll(p) ==
    /\ p \in ChkProcs /\ pc[p] = "poll"
    /\ \E r \in PollOutcomes :
         /\ resp' = [resp EXCEPT ![p] = Kept(r, PollBranch(r, checkCount[p]))]
         /\ pc' = [pc EXCEPT ![p] = PollBranch(r, checkCount[p])]
         /\ handled' = [handled EXCEPT ![p] = PollNote(r)]
         /\ seen' = [seen EXCEPT ![p] = Together(seen[p], PollKind(r))]
         /\ accepted' = AcceptedAfterPoll(cur[p].ID, r)
    /\ polls' = [polls EXCEPT ![p] = polls[p] + 1]
    /\ UNCHANGED <<images, rowLock, sched, batch, cur, checkCount, req, preImg,
                   storeFailed, lateTick>>

\* repo.UpdateBase64(ctx, img.ID, resp.Files[0]): on error continue
ChkSaveBase64(p) ==
    /\ p \in ChkProcs /\ pc[p] = "saveBase64"
    /\ \E ok \in StoreOutcomes :
         IF ok
         THEN /\ images' = UpdateBase64(images, cur[p].ID, FirstFile(resp[p].Files))
              /\ pc' = [pc EXCEPT ![p] = "setPublish"]
              /\ UNCHANGED hist
         ELSE /\ WriteFailed(p, "storeError")
              /\ pc' = [pc EXCEPT ![p] = LoopContinue]
    /\ UNCHANGED <<rowLock, sched, locals>>

\* repo.UpdateStatus(ctx, img.ID, "ReadyToPublish"): on error continue,
\* else "break // Move to next image after successful completion"
ChkSetPublish(p) ==
    /\ p \in ChkProcs /\ pc[p] = "setPublish"
    /\ \E ok \in StoreOutcomes :
         IF ok
         THEN /\ images' = UpdateStatus(images, cur[p].ID, "ReadyToPublish")
              /\ handled' = [handled EXCEPT ![p] = "done"]
              /\ pc' = [pc EXCEPT ![p] = SwitchBreak]
              /\ UNCHANGED <<preImg, storeFailed, notes>>
         ELSE /\ WriteFailed(p, "storeError")
              /\ pc' = [pc EXCEPT ![p] = LoopContinue]
    /\ UNCHANGED <<rowLock, sched, locals>>

\* case "FAILED": repo.UpdateStatus(ctx, img.ID, "Failed");
\* "break // Move to next image after failure"
ChkSetFailed(p) ==
    /\ p \in ChkProcs /\ pc[p] = "setFailed"
    /\ \E ok \in StoreOutcomes :
         IF ok
         THEN /\ images' = UpdateStatus(images, cur[p].ID, "Failed")
              /\ UNCHANGED storeFailed
         ELSE /\ images' = images
              /\ storeFailed' = TRUE
    /\ handled' = [handled EXCEPT ![p] = "failed"]
    /\ pc' = [pc EXCEPT ![p] = SwitchBreak]
    /\ UNCHANGED <<rowLock, sched, locals, preImg, notes>>

\* mutant of ChkResetUUID: the reset leaves the correlation id in place
ChkResetUUIDKeep(p) ==
    /\ p \in ChkProcs /\ pc[p] = "resetUUID"
    /\ \E ok \in StoreOutcomes :
         IF ok
         THEN /\ images' = UpdateUUID(images, cur[p].ID, images[cur[p].ID].uuid)
              /\ pc' = [pc EXCEPT ![p] = "resetStatus"]
              /\ UNCHANGED hist
         ELSE /\ WriteFailed(p, "storeError")
              /\ pc' = [pc EXCEPT ![p] = LoopContinue]
    /\ UNCHANGED <<rowLock, sched, locals>>

\* 404: repo.UpdateUUID(ctx, img.ID, ""): on error continue
ChkResetUUID(p) ==
    /\ p \in ChkProcs /\ pc[p] = "resetUUID"
    /\ \E ok \in StoreOutcomes :
         IF ok
         THEN /\ images' = UpdateUUID(images, cur[p].ID, "")
              /\ pc' = [pc EXCEPT ![p] = "resetStatus"]
              /\ UNCHANGED hist
         ELSE /\ WriteFailed(p, "storeError")
              /\ pc' = [pc EXCEPT ![p] = LoopContinue]
    /\ UNCHANGED <<rowLock, sched, locals>>

\* 404: repo.UpdateStatus(ctx, img.ID, "ReadyToGenerate"): on error
\* continue, else "break // Move to next image after handling 404"
ChkResetStatus(p) ==
    /\ p \in ChkProcs /\ pc[p] = "resetStatus"
    /\ \E ok \in StoreOutcomes :
         IF ok
         THEN /\ images' = UpdateStatus(images, cur[p].ID, "ReadyToGenerate")
              /\ handled' = [handled EXCEPT ![p] = "reset"]
              /\ pc' = [pc EXCEPT ![p] = LoopBreak]
              /\ UNCHANGED <<preImg, storeFailed, notes>>
         ELSE /\ WriteFailed(p, "storeError")
              /\ pc' = [pc EXCEPT ![p] = LoopContinue]
    /\ UNCHANGED <<rowLock, sched, locals>>

\* time.Sleep(2 * time.Second): returns after the delay, whatever ctx is
ChkSleep(p) ==
    /\ p \in ChkProcs /\ pc[p] = "sleep"
    /\ pc' = [pc EXCEPT ![p] = "next"]
    /\ UNCHANGED <<images, rowLock, sched, locals, hist>>

\* mutant of ChkNext: a job still in progress after the last attempt is
\* marked Failed
ChkNextGivesUp(p) ==
    /\ p \in ChkProcs /\ pc[p] = "next"
    /\ IF checkCount[p] + 1 <= MaxChecks
       THEN /\ checkCount' = [checkCount EXCEPT ![p] = checkCount[p] + 1]
            /\ pc' = [pc EXCEPT ![p] = "poll"]
            /\ resp' = [resp EXCEPT ![p] = NoResp]
            /\ handled' = [handled EXCEPT ![p] = "none"]
            /\ UNCHANGED images
       ELSE /\ pc' = [pc EXCEPT ![p] = "range"]
            /\ images' = IF handled[p] = "progress"
                         THEN UpdateStatus(images, cur[p].ID, "Failed")
                         ELSE images
            /\ UNCHANGED <<checkCount, resp, handled>>
    /\ UNCHANGED <<rowLock, sched, batch, cur, req, preImg, storeFailed, notes>>

\* checkCount++; checkCount <= 3
ChkNext(p) ==
    /\ p \in ChkProcs /\ pc[p] = "next"
    /\ IF checkCount[p] + 1 <= MaxChecks
       THEN /\ checkCount' = [checkCount EXCEPT ![p] = checkCount[p] + 1]
            /\ pc' = [pc EXCEPT ![p] = "poll"]
            /\ resp' = [resp EXCEPT ![p] = NoResp]
            /\ handled' = [handled EXCEPT ![p] = "none"]
       ELSE /\ pc' = [pc EXCEPT ![p] = "range"]
            /\ UNCHANGED <<checkCount, resp, handled>>
    /\ UNCHANGED <<images, rowLock, sched, batch, cur, req, preImg, storeFailed, notes>>

\* ------------------------------------ one-row-per-tick workflows and claim
\* rows whose lock another caller's open statement holds are skipped
\* (FOR UPDATE SKIP LOCKED)
Unlocked(p) == {i \in DOMAIN rowLock : rowLock[i] \in {NoProc, p}}

\* GetReadyToGenerate: the statement runs; ORDER BY created_at ASC LIMIT 1
\* FOR UPDATE SKIP LOCKED locks the row it returns; no row: (nil, nil)
OneGenClaim(p) ==
    /\ p \in GenProcs /\ pc[p] = "o_select"
    /\ \E ok \in StoreOutcomes :
         LET rows == EligibleToGenerate(images) \cap Unlocked(p)
         IN IF ok /\ rows # {}
            THEN LET i == Ordered(rows)[1]
                 IN /\ rowLock' = [rowLock EXCEPT ![i] = p]
                    /\ cur' = [cur EXCEPT ![p] = [ID |-> i, Prompt |-> images[i].prompt, UUID |-> ""]]
                    /\ pc' = [pc EXCEPT ![p] = "o_scan"]
            ELSE UNCHANGED <<rowLock, cur, pc>>
    /\ UNCHANGED <<images, sched, batch, checkCount, resp, req, hist>>

\* GetReadyToCheck: the same statement over status = 'Generate', uuid != ''
OneChkClaim(p) ==
    /\ p \in ChkProcs /\ pc[p] = "o_select"
    /\ \E ok \in StoreOutcomes :
         LET rows == EligibleToCheck(images) \cap Unlocked(p)
         IN IF ok /\ rows # {}
            THEN LET i == Ordered(rows)[1]
                 IN /\ rowLock' = [rowLock EXCEPT ![i] = p]
                    /\ cur' = [cur EXCEPT ![p] = [ID |-> i, Prompt |-> "", UUID |-> images[i].uuid]]
                    /\ pc' = [pc EXCEPT ![p] = "o_scan"]
            ELSE UNCHANGED <<rowLock, cur, pc>>
    /\ UNCHANGED <<images, sched, batch, checkCount, resp, req, hist>>

\* the locks a caller still holds when its statement has been read
LocksAfterScan(p) == [i \in DOMAIN rowLock |-> IF rowLock[i] = p THEN NoProc ELSE rowLock[i]]

\* r.db.QueryRowContext(ctx, query).Scan(...): the query runs on r.db, in
\* no transaction, so the statement commits when the row has been read and
\* the row lock goes with it; the caller goes on with img
OneScan(p) ==
    /\ pc[p] = "o_scan"
    /\ rowLock' = LocksAfterScan(p)
    /\ pc' = [pc EXCEPT ![p] = IF p \in GenProcs THEN "o_submit" ELSE "o_poll"]
    /\ checkCount' = [checkCount EXCEPT ![p] = IF p \in GenProcs THEN 0 ELSE 1]
    /\ StartRow(p, cur[p].ID)
    /\ UNCHANGED <<images, sched, batch, cur, resp, req>>

\* the row is done with: back to the select of the for loop
OneDone(p) ==
    /\ pc' = [pc EXCEPT ![p] = "o_select"]
    /\ cur' = [cur EXCEPT ![p] = NoImg]
    /\ resp' = [resp EXCEPT ![p] = NoResp]
    /\ req' = [req EXCEPT ![p] = NoReq]
    /\ checkCount' = [checkCount EXCEPT ![p] = 0]

\* resp, err := service.GenerateImage(ctx, req)
OneGenSubmit(p) ==
    /\ p \in GenProcs /\ pc[p] = "o_submit"
    /\ \E r \in SubmitOutcomes :
         /\ resp' = [resp EXCEPT ![p] = Kept(r, SubmitBranch(r))]
         /\ pc' = [pc EXCEPT ![p] = "o_" \o SubmitBranch(r)]
         /\ accepted' = AcceptedAfterSubmit(cur[p].ID, r)
    /\ req' = [req EXCEPT ![p] = Request(cfg, cur[p])]
    /\ UNCHANGED <<images, rowLock, sched, batch, cur, checkCount, preImg,
                   storeFailed, handled, polls, seen, lateTick>>

\* repo.UpdateUUID(ctx, img.ID, uuid): on error log and continue
OneGenSetUUID(p) ==
    /\ p \in GenProcs /\ pc[p] = "o_setUUID"
    /\ \E ok \in StoreOutcomes :
         IF ok
         THEN /\ images' = UpdateUUID(images, cur[p].ID, resp[p].UUID)
              /\ pc' = [pc EXCEPT ![p] = "o_setGenerate"]
              /\ UNCHANGED <<hist, locals>>
         ELSE /\ WriteFailed(p, "none")
              /\ OneDone(p)
              /\ UNCHANGED batch
    /\ UNCHANGED <<rowLock, sched>>

\* repo.UpdateStatus(ctx, img.ID, "Generate"); continue
OneGenSetGenerate(p) ==
    /\ p \in GenProcs /\ pc[p] = "o_setGenerate"
    /\ \E ok \in StoreOutcomes :
         IF ok
         THEN /\ images' = UpdateStatus(images, cur[p].ID, "Generate")
              /\ UNCHANGED hist
         ELSE WriteFailed(p, "none")
    /\ OneDone(p)
    /\ UNCHANGED <<rowLock, sched, batch>>

\* repo.UpdateStatus(ctx, img.ID, "Failed"); continue
OneGenSetFailed(p) ==
    /\ p \in GenProcs /\ pc[p] = "o_setFailed"
    /\ \E ok \in StoreOutcomes :
         IF ok
         THEN /\ images' = UpdateStatus(images, cur[p].ID, "Failed")
              /\ UNCHANGED hist
         ELSE WriteFailed(p, "none")
    /\ OneDone(p)
    /\ UNCHANGED <<rowLock, sched, batch>>

\* the branch taken on the outcome of service.CheckGenerationStatus: any
\* error is logged and the attempt skipped
OnePollBranch(r, count) ==
    IF r.kind = "err" THEN "o_next"
    ELSE IF r.Status = "DONE"
         THEN IF Len(r.Files) > 0 THEN "o_saveBase64" ELSE "o_next"
         ELSE IF r.Status = "FAILED"
              THEN "o_setFailed"
              ELSE IF count < MaxChecks THEN "o_sleep" ELSE "o_next"

\* resp, err := service.CheckGenerationStatus(ctx, img.UUID)
OneChkPoll(p) ==
    /\ p \in ChkProcs /\ pc[p] = "o_poll"
    /\ \E r \in PollOutcomes :
         /\ resp' = [resp EXCEPT ![p] =
                       IF OnePollBranch(r, checkCount[p]) = "o_saveBase64" THEN r ELSE NoResp]
         /\ pc' = [pc EXCEPT ![p] = OnePollBranch(r, checkCount[p])]
         /\ handled' = [handled EXCEPT ![p] = PollNote(r)]
         /\ accepted' = AcceptedAfterPoll(cur[p].ID, r)
    /\ UNCHANGED <<images, rowLock, sched, batch, cur, checkCount, req, preImg,
                   storeFailed, polls, seen, lateTick>>

\* repo.UpdateBase64(ctx, img.ID, resp.Files[0]): on error continue
OneChkSaveBase64(p) ==
    /\ p \in ChkProcs /\ pc[p] = "o_saveBase64"
    /\ \E ok \in StoreOutcomes :
         IF ok
         THEN /\ images' = UpdateBase64(images, cur[p].ID, FirstFile(resp[p].Files))
              /\ pc' = [pc EXCEPT ![p] = "o_setPublish"]
              /\ UNCHANGED hist
         ELSE /\ WriteFailed(p, "none")
              /\ pc' = [pc EXCEPT ![p] = "o_next"]
    /\ UNCHANGED <<rowLock, sched, locals>>

\* repo.UpdateStatus(ctx, img.ID, "ReadyToPublish"): on error continue, else
\* "return // Exit the loop after successful completion"
OneChkSetPublish(p) ==
    /\ p \in ChkProcs /\ pc[p] = "o_setPublish"
    /\ \E ok \in StoreOutcomes :
         IF ok
         THEN /\ images' = UpdateStatus(images, cur[p].ID, "ReadyToPublish")
              /\ pc' = [pc EXCEPT ![p] = "stopped"]
              /\ UNCHANGED hist
         ELSE /\ WriteFailed(p, "none")
              /\ pc' = [pc EXCEPT ![p] = "o_next"]
    /\ UNCHANGED <<rowLock, sched, locals>>

\* case "FAILED": repo.UpdateStatus(ctx, img.ID, "Failed");
\* "return // Exit the loop after failure"
OneChkSetFailed(p) ==
    /\ p \in ChkProcs /\ pc[p] = "o_setFailed"
    /\ \E ok \in StoreOutcomes :
         IF ok
         THEN /\ images' = UpdateStatus(images, cur[p].ID, "Failed")
              /\ UNCHANGED hist
         ELSE WriteFailed(p, "none")
    /\ pc' = [pc EXCEPT ![p] = "stopped"]
    /\ UNCHANGED <<rowLock, sched, locals>>

\* time.Sleep(2 * time.Second)
OneChkSleep(p) ==
    /\ p \in ChkProcs /\ pc[p] = "o_sleep"
    /\ pc' = [pc EXCEPT ![p] = "o_next"]
    /\ UNCHANGED <<images, rowLock, sched, locals, hist>>

\* checkCount++; checkCount <= 3; after the loop, back to the select
OneChkNext(p) ==
    /\ p \in ChkProcs /\ pc[p] = "o_next"
    /\ IF checkCount[p] + 1 <= MaxChecks
       THEN /\ checkCount' = [checkCount EXCEPT ![p] = checkCount[p] + 1]
            /\ pc' = [pc EXCEPT ![p] = "o_poll"]
            /\ UNCHANGED <<cur, resp, req>>
       ELSE OneDone(p)
    /\ handled' = [handled EXCEPT ![p] = "none"]
    /\ UNCHANGED <<images, rowLock, sched, batch, preImg, storeFailed, notes>>

\* case <-ctx.Done(): return
OneReturn(p) ==
    /\ pc[p] = "o_select"
    /\ cancelled
    /\ pc' = [pc EXCEPT ![p] = "stopped"]
    /\ UNCHANGED <<images, rowLock, sched, locals, hist>>

\* ------------------------------------------------------------ scheduling
\* the goroutine is inside the workflow function
InWorkflow(p) == pc[p] \notin {"idle", "waitLock", "unlock", "stopped"}

\* mutant of MutexFree: Lock never waits
MutexNeverHeld == TRUE

\* cronMutex.Lock() returns only while the mutex is free
MutexFree == ~cronMutex

\* sig := <-sigChan; cancel()
Cancel ==
    /\ ~cancelled
    /\ cancelled' = TRUE
    /\ UNCHANGED <<images, rowLock, mode, cronStopped, cronMutex, conf, lib, pc,
                   locals, hist>>

\* startCronWorkflows: <-ctx.Done(); c.Stop()
StopCron ==
    /\ mode = "cron" /\ cancelled /\ ~cronStopped
    /\ cronStopped' = TRUE
    /\ UNCHANGED <<images, rowLock, mode, cancelled, cronMutex, conf, lib, pc,
                   locals, hist>>

\* the scheduler runs an entry's func in a new goroutine:
\* "[CRON] Attempting to start scheduled ... workflow..."
Fire(p) ==
    /\ mode = "cron" /\ ~cronStopped
    /\ pc[p] = "idle"
    /\ pc' = [pc EXCEPT ![p] = "waitLock"]
    /\ UNCHANGED <<images, rowLock, sched, locals, hist>>

\* cronMutex.Lock(); then the workflow function is called
Lock(p) ==
    /\ pc[p] = "waitLock"
    /\ MutexFree
    /\ cronMutex' = TRUE
    /\ pc' = [pc EXCEPT ![p] = "select"]
    /\ UNCHANGED <<images, rowLock, mode, cancelled, cronStopped, conf, lib,
                   locals, hist>>

\* case <-ctx.Done(): return (the only exit of either workflow function)
Return(p) ==
    /\ pc[p] = "select"
    /\ mode \in {"cron", "continuous"}
    /\ cancelled
    /\ pc' = [pc EXCEPT ![p] = IF mode = "cron" THEN "unlock" ELSE "stopped"]
    /\ UNCHANGED <<images, rowLock, sched, locals, hist>>

\* mutant of Unlock: the firing ends without releasing the mutex
UnlockLeavesLocked(p) ==
    /\ pc[p] = "unlock"
    /\ pc' = [pc EXCEPT ![p] = "idle"]
    /\ UNCHANGED <<images, rowLock, sched, locals, hist>>

\* defer cronMutex.Unlock(): the goroutine of this firing ends
Unlock(p) ==
    /\ pc[p] = "unlock"
    /\ cronMutex' = FALSE
    /\ pc' = [pc EXCEPT ![p] = "idle"]
    /\ UNCHANGED <<images, rowLock, mode, cancelled, cronStopped, conf, lib,
                   locals, hist>>

\* ------------------------------------------------------- specification
\* rows as the creator inserts them: status defaults to ReadyToGenerate
NewRow(prompt) ==
    [prompt |-> prompt, uuid |-> "", status |-> "ReadyToGenerate", base64 |-> ""]

\* a row an earlier run of the generator left in Generate
SubmittedRow(prompt, uuid) ==
    [prompt |-> prompt, uuid |-> uuid, status |-> "Generate", base64 |-> ""]

InitStore ==
    /\ images \in [Ids -> {NewRow(pr) : pr \in Prompts}
                          \cup {SubmittedRow("sunset", u) : u \in UUIDs}]
    /\ rowLock = [i \in Ids |-> NoProc]

InitLocals ==
    /\ batch = [p \in Procs |-> <<>>]
    /\ cur = [p \in Procs |-> NoImg]
    /\ checkCount = [p \in Procs |-> 0]
    /\ resp = [p \in Procs |-> NoResp]
    /\ preImg = [p \in Procs |-> images[1]]
    /\ storeFailed = FALSE
    /\ handled = [p \in Procs |-> "none"]
    /\ polls = [p \in Procs |-> 0]
    /\ seen = [p \in Procs |-> "none"]
    /\ lateTick = FALSE
    /\ accepted = {}
    /\ req = [p \in Procs |-> NoReq]

\* no library call is being followed
InitLib ==
    /\ call = NoCall
    /\ result = NoResult

\* cfg, err := config.Load() with the environment of .env.example
InitConfig ==
    /\ env = ExampleEnv
    /\ cfg = Load(env)

\* main: -cron starts the scheduler; otherwise -generator and -processor
\* start one goroutine each
Init ==
    /\ InitStore
    /\ InitLocals
    /\ InitLib
    /\ InitConfig
    /\ mode \in {"continuous", "cron"}
    /\ cancelled = FALSE
    /\ cronStopped = FALSE
    /\ cronMutex = FALSE
    /\ pc = [p \in Procs |->
               IF mode = "continuous" /\ p[2] = 1 THEN "select" ELSE "idle"]

Next ==
    \/ Cancel
    \/ StopCron
    \/ \E p \in Procs : Fire(p)
    \/ \E p \in Procs : Lock(p)
    \/ \E p \in Procs : Return(p)
    \/ \E p \in Procs : Unlock(p)
    \/ \E p \in Procs : GenTick(p)
    \/ \E p \in Procs : GenRange(p)
    \/ \E p \in Procs : GenSubmit(p)
    \/ \E p \in Procs : GenSetUUID(p)
    \/ \E p \in Procs : GenSetGenerate(p)
    \/ \E p \in Procs : GenSetFailed(p)
    \/ \E p \in Procs : ChkTick(p)
    \/ \E p \in Procs : ChkRange(p)
    \/ \E p \in Procs : ChkPoll(p)
    \/ \E p \in Procs : ChkSaveBase64(p)
    \/ \E p \in Procs : ChkSetPublish(p)
    \/ \E p \in Procs : ChkSetFailed(p)
    \/ \E p \in Procs : ChkResetUUID(p)
    \/ \E p \in Procs : ChkResetStatus(p)
    \/ \E p \in Procs : ChkSleep(p)
    \/ \E p \in Procs : ChkNext(p)

Spec == Init /\ [][Next]_vars

\* program instances sharing one table, seen through one claim operation
\* at a time: their one-row-per-tick generator loops, or their processor
\* loops over rows that were submitted before
InitClaim ==
    /\ InitStore
    /\ InitLocals
    /\ InitLib
    /\ InitConfig
    /\ mode = "claim"
    /\ cancelled = FALSE
    /\ cronStopped = FALSE
    /\ cronMutex = FALSE
    /\ \E k \in {"gen", "proc"} :
          pc = [p \in Procs |-> IF p[1] = k THEN "o_select" ELSE "idle"]

NextClaim ==
    \/ Cancel
    \/ \E p \in Procs : OneGenClaim(p)
    \/ \E p \in Procs : OneChkClaim(p)
    \/ \E p \in Procs : OneScan(p)
    \/ \E p \in Procs : OneGenSubmit(p)
    \/ \E p \in Procs : OneGenSetUUID(p)
    \/ \E p \in Procs : OneGenSetGenerate(p)
    \/ \E p \in Procs : OneGenSetFailed(p)
    \/ \E p \in Procs : OneChkPoll(p)
    \/ \E p \in Procs : OneChkSaveBase64(p)
    \/ \E p \in Procs : OneChkSetPublish(p)
    \/ \E p \in Procs : OneChkSetFailed(p)
    \/ \E p \in Procs : OneChkSleep(p)
    \/ \E p \in Procs : OneChkNext(p)
    \/ \E p \in Procs : OneReturn(p)

SpecClaim == InitClaim /\ [][NextClaim]_vars

\* ------------------------------------------------- WaitForGeneration
\* largest DEFAULT_MAX_ATTEMPTS tried besides the default
MaxConfigured == 3

\* status tokens of a status response; "QUEUED" stands for any token the
\* switch does not name
WaitStatuses == {"DONE", "FAIL", "FAILED", "INITIAL", "PROCESSING", "QUEUED"}

\* s.CheckGenerationStatus(ctx, uuid): the client call under
\* context.WithTimeout(ctx, s.config.CheckInterval)
WaitOutcomes ==
    IF cancelled THEN {CtxError}
    ELSE {OkResp("", st, <<>>) : st \in WaitStatuses \ {"DONE"}}
         \cup {OkResp("", "DONE", f) : f \in FileLists}
         \cup {ErrResp(500, FALSE, "", FALSE)}

\* the call has returned ret to its caller
Returned(st, ret) == [st EXCEPT !.kind = "returned", !.ret = ret]

\* switch resp.Status of WaitForGeneration
WaitBranch(st, r) ==
    IF r.kind = "err" THEN Returned([st EXCEPT !.status = "error"], "checkError")
    ELSE LET t == [st EXCEPT !.status = r.Status]
         IN IF r.Status = "DONE" THEN Returned(t, "resp")
            ELSE IF r.Status = "FAIL" THEN Returned(t, "generationFailed")
            ELSE IF r.Status \in {"INITIAL", "PROCESSING"}
                 THEN [t EXCEPT !.kind = "waiting"]
                 ELSE Returned(t, "unknownStatus")

\* mutant of AttemptsRemain: the loop runs once more
AttemptsRemainInclusive(i, max) == i <= max

\* i < s.config.MaxAttempts
AttemptsRemain(i, max) == i < max

\* resp, err := s.CheckGenerationStatus(ctx, uuid) and the switch
WaitCheck ==
    /\ mode = "wait" /\ result.kind = "running"
    /\ AttemptsRemain(result.i, cfg.MaxAttempts)
    /\ \E r \in WaitOutcomes :
         result' = WaitBranch([result EXCEPT !.checks = result.checks + 1], r)
    /\ UNCHANGED <<images, rowLock, mode, cancelled, cronStopped, cronMutex, conf,
                   call, pc, locals, hist>>

\* the loop condition fails:
\* return nil, fmt.Errorf("max attempts reached waiting for generation")
WaitExhausted ==
    /\ mode = "wait" /\ result.kind = "running"
    /\ ~AttemptsRemain(result.i, cfg.MaxAttempts)
    /\ result' = Returned(result, "maxAttempts")
    /\ UNCHANGED <<images, rowLock, mode, cancelled, cronStopped, cronMutex, conf,
                   call, pc, locals, hist>>

\* mutant of WaitSelect: the wait is a sleep that does not look at ctx
WaitSelectSleeps ==
    /\ mode = "wait" /\ result.kind = "waiting"
    /\ result' = [result EXCEPT !.kind = "running", !.i = result.i + 1]
    /\ UNCHANGED <<images, rowLock, mode, cancelled, cronStopped, cronMutex, conf,
                   call, pc, locals, hist>>

\* select { case <-ctx.Done(): return nil, ctx.Err()
\*          case <-time.After(s.config.CheckInterval): continue }
\* the timer is created by this select and the interval is positive, so
\* when ctx.Done() is closed it is the only case that is ready
WaitSelect ==
    /\ mode = "wait" /\ result.kind = "waiting"
    /\ result' = IF cancelled
                 THEN Returned(result, "ctxError")
                 ELSE [result EXCEPT !.kind = "running", !.i = result.i + 1]
    /\ UNCHANGED <<images, rowLock, mode, cancelled, cronStopped, cronMutex, conf,
                   call, pc, locals, hist>>

\* environments that differ in DEFAULT_MAX_ATTEMPTS: text that is no
\* integer, or an integer from -1 up
WaitEnvs ==
    {[ExampleEnv EXCEPT !.DEFAULT_MAX_ATTEMPTS = a] :
        a \in {[numeric |-> FALSE, val |-> 0]}
              \cup {[numeric |-> TRUE, val |-> v] : v \in -1..MaxConfigured}}

\* a caller calls service.WaitForGeneration(ctx, uuid) on a service built
\* from the loaded configuration
InitWait ==
    /\ InitStore
    /\ InitLocals
    /\ env \in WaitEnvs
    /\ cfg = Load(env)
    /\ mode = "wait"
    /\ cancelled = FALSE
    /\ cronStopped = FALSE
    /\ cronMutex = FALSE
    /\ pc = [p \in Procs |-> "idle"]
    /\ call = [op |-> "WaitForGeneration"]
    /\ result = [kind |-> "running", i |-> 0, checks |-> 0, status |-> "none",
                 ret |-> "none"]

NextWait ==
    \/ Cancel
    \/ WaitCheck
    \/ WaitExhausted
    \/ WaitSelect

SpecWait == InitWait /\ [][NextWait]_vars

\* ---------------------------------------------------- truncatePrompt
\* longest prompt tried, in code points
MaxRunes == 3

\* a code point is told by the number of bytes of its UTF-8 encoding
Runes == 1..4

\* the UTF-8 encoding of a code point: a lead byte that tells the width,
\* then continuation bytes
EncodeRune(w) ==
    IF w = 1 THEN <<"A">>
    ELSE IF w = 2 THEN <<"L2", "C">>
    ELSE IF w = 3 THEN <<"L3", "C", "C">>
    ELSE <<"L4", "C", "C", "C">>

\* a Go string holding the text rs: the bytes of its code points in order
RECURSIVE Encode(_)
Encode(rs) == IF rs = <<>> THEN <<>> ELSE EncodeRune(Head(rs)) \o Encode(Tail(rs))

\* s[a] is a continuation byte
IsCont(s, a) == a <= Len(s) /\ s[a] = "C"

\* mutant of DecodeRuneInString: every byte is taken for a character
DecodeRuneByte(s, n) == 1

\* _, size := utf8.DecodeRuneInString(s[n:]), for n < len(s): the width of
\* the encoding that starts at byte offset n, 1 for a byte that starts none
DecodeRuneInString(s, n) ==
    LET b == s[n + 1]
    IN IF b = "L2" /\ IsCont(s, n + 2) THEN 2
       ELSE IF b = "L3" /\ IsCont(s, n + 2) /\ IsCont(s, n + 3) THEN 3
       ELSE IF b = "L4" /\ IsCont(s, n + 2) /\ IsCont(s, n + 3) /\ IsCont(s, n + 4)
            THEN 4
            ELSE 1

\* utf8.RuneCountInString(s[n:])
RECURSIVE RuneCountFrom(_, _)
RuneCountFrom(s, n) ==
    IF n >= Len(s) THEN 0 ELSE 1 + RuneCountFrom(s, n + DecodeRuneInString(s, n))

RuneCountInString(s) == RuneCountFrom(s, 0)

\* for i := 0; i < length && n < len(s); i++ { n += size }: the final n
RECURSIVE CutOffset(_, _, _, _)
CutOffset(s, length, i, n) ==
    IF i < length /\ n < Len(s)
    THEN CutOffset(s, length, i + 1, n + DecodeRuneInString(s, n))
    ELSE n

\* mutant of Slice: what follows the offset is kept
SliceTail(s, n) == SubSeq(s, n + 1, Len(s))

\* s[:n]
Slice(s, n) == SubSeq(s, 1, n)

truncatePrompt(s, length) ==
    IF RuneCountInString(s) <= length THEN s
    ELSE Slice(s, CutOffset(s, length, 0, 0))

\* the prompts tried: every text of at most MaxRunes code points
Texts == UNION {[1..k -> Runes] : k \in 0..MaxRunes}

\* img.Prompt = truncatePrompt(img.Prompt, maxPromptLength)
Truncate ==
    /\ mode = "prompt" /\ result.kind = "none"
    /\ result' = [kind |-> "returned", val |-> truncatePrompt(call.s, call.length)]
    /\ UNCHANGED <<images, rowLock, mode, cancelled, cronStopped, cronMutex, conf,
                   call, pc, locals, hist>>

\* the normalized prompt is normalized again with the same limit
Renormalize ==
    /\ mode = "prompt" /\ result.kind = "returned" /\ call.depth = 1
    /\ call' = [call EXCEPT !.s = result.val, !.depth = 2]
    /\ result' = NoResult
    /\ UNCHANGED <<images, rowLock, mode, cancelled, cronStopped, cronMutex, conf,
                   pc, locals, hist>>

\* truncatePrompt is about to be called on a stored prompt; text is the
\* prompt as code points, s as the bytes of the string
InitPrompt ==
    /\ InitStore
    /\ InitLocals
    /\ InitConfig
    /\ mode = "prompt"
    /\ cancelled = FALSE
    /\ cronStopped = FALSE
    /\ cronMutex = FALSE
    /\ pc = [p \in Procs |-> "idle"]
    /\ \E t \in Texts, l \in -1..(MaxRunes + 1) :
          call = [op |-> "truncatePrompt", text |-> t, s |-> Encode(t),
                  length |-> l, depth |-> 1]
    /\ result = NoResult

NextPrompt ==
    \/ Truncate
    \/ Renormalize

SpecPrompt == InitPrompt /\ [][NextPrompt]_vars

\* ------------------------- GetReadyToGenerate / GetReadyToCheck, called
\* rows of the table the claim statements are tried on
NumRows == 2

RowIds == 1..NumRows

\* rows a table can hold when a claim statement runs: new rows with and
\* without a prompt, rows in Generate with and without a uuid, failed rows
SelectRows ==
    {NewRow(pr) : pr \in Prompts}
    \cup {SubmittedRow("sunset", u) : u \in UUIDs \cup {""}}
    \cup {[NewRow("sunset") EXCEPT !.status = "Failed"]}

\* the statement of caller p has run: the (img, err) it is about to return,
\* the first of the rows that pass the WHERE clause and are not locked;
\* img[i] is row i as the SELECT list shows it
Selected(rows, img, ok) ==
    IF ~ok THEN [kind |-> "returned", err |-> TRUE, img |-> NoImg]
    ELSE IF rows = {} THEN [kind |-> "returned", err |-> FALSE, img |-> NoImg]
    ELSE [kind |-> "scanning", err |-> FALSE, img |-> img[Ordered(rows)[1]]]

\* the state after the statement of caller p has produced r: a row it
\* found is locked until the statement ends
AfterSelect(p, r) ==
    /\ result' = [result EXCEPT ![p] = r]
    /\ rowLock' = IF r.img = NoImg THEN rowLock
                  ELSE [rowLock EXCEPT ![r.img.ID] = p]
    /\ pc' = [pc EXCEPT ![p] = IF r.kind = "scanning" THEN "o_scan" ELSE "o_returned"]
    /\ UNCHANGED <<images, mode, cancelled, cronStopped, cronMutex, conf, call,
                   locals, hist>>

\* r.GetReadyToGenerate(ctx) up to the row produced by the statement
GetReadyToGenerate(p) ==
    /\ mode = "select" /\ p \in GenProcs /\ pc[p] = "o_select"
    /\ \E ok \in StoreOutcomes :
         AfterSelect(p, Selected(EligibleToGenerate(images) \cap Unlocked(p),
                                 [i \in DOMAIN images |->
                                    [ID |-> i, Prompt |-> images[i].prompt, UUID |-> ""]],
                                 ok))

\* r.GetReadyToCheck(ctx) up to the row produced by the statement
GetReadyToCheck(p) ==
    /\ mode = "select" /\ p \in ChkProcs /\ pc[p] = "o_select"
    /\ \E ok \in StoreOutcomes :
         AfterSelect(p, Selected(EligibleToCheck(images) \cap Unlocked(p),
                                 [i \in DOMAIN images |->
                                    [ID |-> i, Prompt |-> "", UUID |-> images[i].uuid]],
                                 ok))

\* Scan has filled img, the statement ends and its row lock with it:
\* return &img, nil
SelectReturn(p) ==
    /\ mode = "select" /\ pc[p] = "o_scan"
    /\ rowLock' = LocksAfterScan(p)
    /\ result' = [result EXCEPT ![p].kind = "returned"]
    /\ pc' = [pc EXCEPT ![p] = "o_returned"]
    /\ UNCHANGED <<images, mode, cancelled, cronStopped, cronMutex, conf, call,
                   locals, hist>>

\* the caller calls the method again
SelectAgain(p) ==
    /\ mode = "select" /\ pc[p] = "o_returned"
    /\ result' = [result EXCEPT ![p] = NoResult]
    /\ pc' = [pc EXCEPT ![p] = "o_select"]
    /\ UNCHANGED <<images, rowLock, mode, cancelled, cronStopped, cronMutex, conf,
                   call, locals, hist>>

\* callers on several connections call one of the two methods on a table
\* that others filled
InitSelect ==
    /\ images \in [RowIds -> SelectRows]
    /\ rowLock = [i \in RowIds |-> NoProc]
    /\ InitLocals
    /\ InitConfig
    /\ mode = "select"
    /\ cancelled = FALSE
    /\ cronStopped = FALSE
    /\ cronMutex = FALSE
    /\ \E k \in {"gen", "proc"} :
          /\ pc = [p \in Procs |-> IF p[1] = k THEN "o_select" ELSE "idle"]
          /\ call = [op |-> IF k = "gen" THEN "GetReadyToGenerate"
                                         ELSE "GetReadyToCheck"]
    /\ result = [p \in Procs |-> NoResult]

NextSelect ==
    \/ Cancel
    \/ \E p \in Procs : GetReadyToGenerate(p)
    \/ \E p \in Procs : GetReadyToCheck(p)
    \/ \E p \in Procs : SelectReturn(p)
    \/ \E p \in Procs : SelectAgain(p)

SpecSelect == InitSelect /\ [][NextSelect]_vars

\* ------------------------- UpdateStatus / UpdateUUID / UpdateBase64, called
\* latest reading of the clock
MaxClock == 3

\* a row with its timestamp columns (DEFAULT CURRENT_TIMESTAMP at insert)
Stamped(row, t) ==
    [prompt |-> row.prompt, uuid |-> row.uuid, status |-> row.status,
     base64 |-> row.base64, created_at |-> t, updated_at |-> t]

\* the update methods and the values they are tried with
StoreCalls ==
    {[op |-> "UpdateStatus", val |-> v] : v \in {"Generate", "Failed"}}
    \cup {[op |-> "UpdateUUID", val |-> v] : v \in UUIDs \cup {""}}
    \cup {[op |-> "UpdateBase64", val |-> v] : v \in {"", "b1"}}

\* mutant of Touch: the statement has lost its WHERE clause for updated_at
TouchEveryRow(tbl, id, now) ==
    [i \in DOMAIN tbl |-> [tbl[i] EXCEPT !.updated_at = now]]

\* SET ..., updated_at = $2 WHERE id = $3
Touch(tbl, id, now) == [tbl EXCEPT ![id].updated_at = now]

\* r.db.ExecContext(ctx, query, value, time.Now(), id) of the three
\* methods: WHERE id = $3 matches one row or none
ExecUpdate(tbl, c, now) ==
    IF c.id \notin DOMAIN tbl THEN tbl
    ELSE IF c.op = "UpdateStatus" THEN Touch(UpdateStatus(tbl, c.id, c.val), c.id, now)
    ELSE IF c.op = "UpdateUUID" THEN Touch(UpdateUUID(tbl, c.id, c.val), c.id, now)
    ELSE Touch(UpdateBase64(tbl, c.id, c.val), c.id, now)

\* a caller is about to call one of the methods with an id and a value;
\* the id may be of no row
StoreCall ==
    /\ mode = "store" /\ call.next = "call"
    /\ \E c \in StoreCalls, id \in 1..(NumRows + 1) :
         call' = [op |-> c.op, val |-> c.val, id |-> id, applied |-> 0,
                  now |-> call.now, next |-> "exec"]
    /\ result' = NoResult
    /\ UNCHANGED <<images, rowLock, mode, cancelled, cronStopped, cronMutex, conf,
                   pc, locals, hist>>

\* the method runs: time.Now() is read, the statement is sent, err returned
StoreExec ==
    /\ mode = "store" /\ call.next = "exec" /\ call.now < MaxClock
    /\ \E ok \in StoreOutcomes :
         /\ images' = IF ok THEN ExecUpdate(images, call, call.now + 1) ELSE images
         /\ call' = [call EXCEPT !.now = call.now + 1,
                                 !.applied = IF ok THEN call.applied + 1 ELSE call.applied,
                                 !.next = IF ok /\ call.applied = 0 THEN "exec" ELSE "call"]
         /\ result' = [kind |-> "returned", err |-> ~ok]
    /\ UNCHANGED <<rowLock, mode, cancelled, cronStopped, cronMutex, conf, pc,
                   locals, hist>>

\* the caller makes another call instead of repeating the one that succeeded
StoreDone ==
    /\ mode = "store" /\ call.next = "exec" /\ call.applied = 1
    /\ call' = [call EXCEPT !.next = "call"]
    /\ UNCHANGED <<images, rowLock, mode, cancelled, cronStopped, cronMutex, conf,
                   result, pc, locals, hist>>

\* a table of rows inserted at time 0, and a caller of the update methods
InitStoreCalls ==
    /\ images \in [RowIds -> {Stamped(NewRow("sunset"), 0),
                               Stamped(SubmittedRow("sunset", "u1"), 0)}]
    /\ rowLock = [i \in RowIds |-> NoProc]
    /\ InitLocals
    /\ InitConfig
    /\ mode = "store"
    /\ cancelled = FALSE
    /\ cronStopped = FALSE
    /\ cronMutex = FALSE
    /\ pc = [p \in Procs |-> "idle"]
    /\ call = [op |-> "none", val |-> "", id |-> 0, applied |-> 0, now |-> 0,
               next |-> "call"]
    /\ result = NoResult

NextStore ==
    \/ Cancel
    \/ StoreCall
    \/ StoreExec
    \/ StoreDone

SpecStore == InitStoreCalls /\ [][NextStore]_vars

\* ================================================================ claims
\* the goroutine is between taking a row off its batch and finishing it
MidJob(p) ==
    pc[p] \in {"submit", "setUUID", "setGenerate", "setFailed", "poll",
               "saveBase64", "setPublish", "resetUUID", "resetStatus",
               "sleep", "next",
               "o_scan", "o_submit", "o_setUUID", "o_setGenerate", "o_setFailed",
               "o_poll", "o_saveBase64", "o_setPublish", "o_sleep", "o_next"}

NoStageMidJob == \A p \in Procs : ~MidJob(p)

\* the step with which goroutine p finishes the row it has in hand
Finishes(p) == MidJob(p) /\ pc'[p] = "range"

\* C1: Submission Stage, every store write succeeding: when the stage has
\* finished with a claimed job, the job is Generate with a non-empty
\* correlation id, or Failed.
C1_SubmissionOutcome ==
    [][\A p \in GenProcs :
         (Finishes(p) /\ ~storeFailed') =>
            LET row == images'[cur[p].ID]
            IN \/ row.status = "Generate" /\ row.uuid # ""
               \/ row.status = "Failed"]_vars

\* C2: Batch Polling Stage, every store write succeeding: when the stage
\* has finished with a claimed job, the job is ReadyToPublish with a
\* non-empty result, or Failed, or ReadyToGenerate with an empty
\* correlation id, or still Generate and exactly as it was claimed.
C2_PollingOutcome ==
    [][\A p \in ChkProcs :
         (Finishes(p) /\ ~storeFailed') =>
            LET row == images'[cur[p].ID]
            IN \/ row.status = "ReadyToPublish" /\ row.base64 # ""
               \/ row.status = "Failed"
               \/ row.status = "ReadyToGenerate" /\ row.uuid = ""
               \/ row.status = "Generate" /\ row = preImg[p]]_vars

\* C2 witness: the Polling Stage has finished a job by resetting it, no
\* store write having failed.
C2_Witness ==
    \E p \in ChkProcs :
        /\ pc[p] = "range" /\ cur[p].ID # 0 /\ ~storeFailed
        /\ handled[p] = "reset"
        /\ images[cur[p].ID].status = "ReadyToGenerate"

C4_ResultImpliesPublish ==
    NoStageMidJob =>
        \A i \in Ids : images[i].base64 # "" => images[i].status = "ReadyToPublish"

\* C5: ReadyToPublish and Failed are terminal: no step changes the status,
\* correlation id or result of a job whose stored status is one of them.
C5_Terminal ==
    [][\A i \in Ids :
         images[i].status \in {"ReadyToPublish", "Failed"} => images'[i] = images[i]]_vars

\* C6: calendar mode: at most one goroutine is inside a workflow function
\* at any time, so a generator run and a processor run never overlap and
\* overlapping firings of one entry run one after another.
C6_CronMutualExclusion ==
    mode = "cron" =>
        /\ Cardinality({p \in Procs : InWorkflow(p)}) <= 1
        /\ \A g \in GenProcs, c \in ChkProcs : ~(InWorkflow(g) /\ InWorkflow(c))

\* C6 witness: a generator run is inside its workflow while a processor
\* firing and a second generator firing are blocked on the mutex.
C6_Witness ==
    /\ mode = "cron"
    /\ \E g \in GenProcs, h \in GenProcs, c \in ChkProcs :
          /\ g # h
          /\ MidJob(g)
          /\ pc[h] = "waitLock"
          /\ pc[c] = "waitLock"

\* steps of goroutine p once it has been started
Step(p) ==
    \/ Lock(p) \/ Return(p) \/ Unlock(p)
    \/ GenTick(p) \/ GenRange(p) \/ GenSubmit(p)
    \/ GenSetUUID(p) \/ GenSetGenerate(p) \/ GenSetFailed(p)
    \/ ChkTick(p) \/ ChkRange(p) \/ ChkPoll(p) \/ ChkSaveBase64(p)
    \/ ChkSetPublish(p) \/ ChkSetFailed(p) \/ ChkResetUUID(p)
    \/ ChkResetStatus(p) \/ ChkSleep(p) \/ ChkNext(p)

\* the Go scheduler runs every runnable goroutine; the signal that cancels
\* the context may never come
FairSpec == Spec /\ \A p \in Procs : WF_vars(Step(p))

\* C7: calendar mode: a firing that is waiting for the mutex while the
\* context is not cancelled gets to start its workflow run, unless the
\* context is cancelled first.
C7_CronProgress ==
    \A p \in Procs :
        (mode = "cron" /\ pc[p] = "waitLock" /\ ~cancelled)
            ~> (InWorkflow(p) \/ cancelled)

\* C9: a poll that returned DONE with a non-empty list: the first element
\* is stored as the result before the status is written, and once both
\* writes are done the job is ReadyToPublish with that result.
C9_DoneStoresFirstFile ==
    \A p \in ChkProcs :
        /\ pc[p] = "setPublish" =>
              images[cur[p].ID].base64 = resp[p].Files[1]
        /\ (pc[p] = "next" /\ handled[p] = "done") =>
              /\ images[cur[p].ID].base64 = resp[p].Files[1]
              /\ images[cur[p].ID].status = "ReadyToPublish"

\* C9 witness: the attempt that got DONE with a two-element list has made
\* both writes.
C9_Witness ==
    \E p \in ChkProcs :
        /\ pc[p] = "next" /\ handled[p] = "done"
        /\ Len(resp[p].Files) = 2

\* C10: after an attempt that ended with DONE saved or with FAILED, the
\* stage makes no further poll for that job in the tick.
C10_StopsPolling ==
    [][\A p \in ChkProcs :
         (pc[p] = "next" /\ handled[p] \in {"done", "failed"}) => pc'[p] # "poll"]_vars

\* C8: a claimed job is in the hands of one caller only: no two callers are
\* at the same time between claiming the same job and finishing with it.
C8_ClaimExclusive ==
    \A p \in Procs, q \in Procs :
        (p # q /\ MidJob(p) /\ MidJob(q)) => cur[p].ID # cur[q].ID

\* C11: Batch Polling Stage, a poll that failed with the not-found
\* signature, both store writes succeeding: the correlation id is already
\* empty when the status is written, the job ends ReadyToGenerate with an
\* empty correlation id and is eligible for the Submission Stage's next
\* claim, and the stage makes no further poll for that job in the tick.
C11_NotFoundReset ==
    [][\A p \in ChkProcs :
         /\ (pc[p] = "resetStatus" /\ handled'[p] = "reset") =>
               /\ images[cur[p].ID].uuid = ""
               /\ images'[cur[p].ID].uuid = ""
               /\ images'[cur[p].ID].status = "ReadyToGenerate"
               /\ cur[p].ID \in EligibleToGenerate(images')
         /\ (handled[p] = "reset" /\ pc'[p] = "poll") =>
               cur'[p].ID # cur[p].ID]_vars

\* C11 witness: a job was reset on a not-found answer while attempts of
\* the tick were left, and is eligible for submission again.
C11_Witness ==
    \E p \in ChkProcs :
        /\ pc[p] = "range" /\ handled[p] = "reset"
        /\ polls[p] < MaxChecks
        /\ cur[p].ID \in EligibleToGenerate(images)

\* C12: Batch Polling Stage: at most 3 status calls are made for a claimed
\* job in one tick, and every attempt made (one ended by a call error or by
\* a failed store write included) has used up one of the 3.
C12_AttemptBudget ==
    \A p \in ChkProcs :
        /\ polls[p] <= MaxChecks
        /\ MidJob(p) =>
              polls[p] = IF pc[p] = "poll" THEN checkCount[p] - 1 ELSE checkCount[p]

\* C12 witness: the three attempts of a tick are used up, a store write
\* having failed and the answers having differed.
C12_Witness ==
    \E p \in ChkProcs :
        /\ pc[p] = "range" /\ polls[p] = MaxChecks
        /\ storeFailed /\ seen[p] = "mixed"

\* C13: Batch Polling Stage: when every status call of the tick for a job
\* answered a status other than DONE and FAILED, the job is after the tick
\* exactly as it was before it, and it is eligible for the next Polling
\* claim.
C13_Backpressure ==
    [][\A p \in ChkProcs :
         (Finishes(p) /\ seen[p] = "progress") =>
            /\ images'[cur[p].ID] = preImg[p]
            /\ cur[p].ID \in EligibleToCheck(images')]_vars

\* C13 witness: three attempts, all answered "in progress", are over and
\* the job is still in Generate.
C13_Witness ==
    \E p \in ChkProcs :
        /\ pc[p] = "range" /\ seen[p] = "progress" /\ polls[p] = MaxChecks
        /\ images[cur[p].ID].status = "Generate"

\* C14: Batch Polling Stage: a status call that fails with an error other
\* than the not-found signature leads to no write on the job, and when all
\* attempts of the tick failed this way the job is still in Generate,
\* exactly as it was claimed.
C14_PollErrorNoWrite ==
    [][\A p \in ChkProcs :
         /\ (pc[p] = "poll" /\ handled'[p] = "error") =>
               /\ images' = images
               /\ pc'[p] \notin {"saveBase64", "setPublish", "setFailed",
                                 "resetUUID", "resetStatus"}
         /\ (Finishes(p) /\ seen[p] = "error") =>
               /\ images'[cur[p].ID] = preImg[p]
               /\ images'[cur[p].ID].status = "Generate"]_vars

\* C14 witness: all three attempts of the tick failed with such an error.
C14_Witness ==
    \E p \in ChkProcs :
        /\ pc[p] = "range" /\ seen[p] = "error" /\ polls[p] = MaxChecks
        /\ ~storeFailed

\* C15: degenerate success: when the submit call returned an error with
\* status code 201, the INITIAL token and an embedded uuid, the Submission
\* Stage never takes the failure path, and with both store writes succeeding
\* it leaves the job exactly as a plain success returning that uuid does:
\* correlation id = that uuid, status = Generate, nothing else changed.
C15_DegenerateSuccess ==
    [][\A p \in GenProcs :
         /\ handled'[p] = "initial" => pc'[p] \in {"setUUID", "setGenerate"}
         /\ (pc[p] = "setGenerate" /\ handled[p] \in {"initial", "accepted"}
               /\ handled'[p] = "submitted") =>
               images'[cur[p].ID] =
                  [preImg[p] EXCEPT !.uuid = resp[p].UUID, !.status = "Generate"]]_vars

\* C15 witness: a job submitted through the 201 answer is in Generate
\* with the uuid of that answer.
C15_Witness ==
    \E p \in GenProcs :
        /\ pc[p] = "range" /\ handled[p] = "submitted"
        /\ resp[p].kind = "err" /\ resp[p].code = 201
        /\ images[cur[p].ID].status = "Generate"
        /\ images[cur[p].ID].uuid = resp[p].UUID

C17_WriteOrdering ==
    [][\A p \in GenProcs :
         /\ (pc[p] # pc'[p] /\ MidJob(p)
               /\ images'[cur[p].ID].status = "Generate"
               /\ images[cur[p].ID].status # "Generate") =>
               /\ pc[p] = "setGenerate"
               /\ images[cur[p].ID].uuid = resp[p].UUID
               /\ images'[cur[p].ID].uuid = resp[p].UUID
         /\ (pc[p] # "setGenerate" /\ pc'[p] = "setGenerate") =>
               /\ pc[p] = "setUUID"
               /\ images'[cur[p].ID].uuid = resp[p].UUID
         /\ (pc[p] = "setUUID" /\ handled'[p] = "storeError") =>
               /\ pc'[p] = "range"
               /\ images' = images]_vars

\* C17 witness: the correlation-id write of a submission failed and the
\* job was left in ReadyToGenerate.
C17_Witness ==
    \E p \in GenProcs :
        /\ pc[p] = "range" /\ handled[p] = "storeError"
        /\ resp[p].kind # "none"
        /\ images[cur[p].ID].status = "ReadyToGenerate"

\* C18: no new ticks after cancellation: once ctx.Done() is closed neither
\* workflow begins another tick, that is, issues another claim call, in
\* continuous mode and in calendar mode.
C18_NoTickAfterCancel == ~lateTick

\* C19: every wait observes cancellation: when the context is cancelled
\* while the batch Polling Stage waits between two attempts, the stage
\* makes no further attempt for that job.
C19_WaitObservesCancel ==
    [][\A p \in ChkProcs :
         (cancelled /\ pc[p] = "next" /\ handled[p] = "progress"
            /\ checkCount[p] < MaxChecks) => pc'[p] # "poll"]_vars

\* C20: one-job-per-tick polling workflow: the loop goes on taking ticks
\* until the cancellation signal is observed; a processor goroutine has
\* ended only if the context is cancelled.
C20_LoopRunsUntilCancel ==
    \A p \in ChkProcs : pc[p] = "stopped" => cancelled

\* C29: store errors commit no partial progress: when a store write fails
\* while a stage is handling a job, the job is, once the stage has finished
\* with it, what it was when the stage took it: status, correlation id and
\* result unchanged.
C29_NoPartialProgress ==
    [][\A p \in Procs :
         (Finishes(p) /\ handled'[p] = "storeError") =>
            images'[cur[p].ID] = preImg[p]]_vars

\* C30: the negative prompt set by DEFAULT_NEGATIVE_PROMPT is the
\* NegativePrompt of every request the Submission Stage submits, and the
\* configured DEFAULT_STYLE is its Style.
C30_ConfiguredNegativePrompt ==
    \A p \in GenProcs :
        pc[p] \in {"setUUID", "setGenerate", "setFailed"} =>
            /\ req[p].NegativePrompt = env.DEFAULT_NEGATIVE_PROMPT
            /\ req[p].Style = env.DEFAULT_STYLE

\* besides the workflow goroutines, the goroutine of startCronWorkflows that
\* waits for <-ctx.Done() and then calls c.Stop() is scheduled too
LiveSpec == FairSpec /\ WF_vars(StopCron)

\* no goroutine is inside a workflow or waiting for the mutex, and the
\* scheduler will start no more
NoStageRunning ==
    /\ \A p \in Procs : pc[p] \in {"idle", "stopped"}
    /\ mode = "cron" => cronStopped /\ ~cronMutex

C22_OtherStatusWaits ==
    [][(/\ mode = "wait"
        /\ result'.checks = result.checks + 1
        /\ result'.status \notin {"DONE", "FAILED", "error"})
       => result'.kind = "waiting"]_vars

\* C23: WaitForGeneration makes at most MaxAttempts checks; it returns
\* 'max attempts reached' only after exactly MaxAttempts checks, and with
\* MaxAttempts <= 0 it returns that error without any check
C23_AtMostMaxAttempts ==
    mode = "wait" =>
        /\ result.checks <= (IF cfg.MaxAttempts > 0 THEN cfg.MaxAttempts ELSE 0)
        /\ result.ret = "maxAttempts" =>
              result.checks = (IF cfg.MaxAttempts > 0 THEN cfg.MaxAttempts ELSE 0)
        /\ (cfg.MaxAttempts <= 0 /\ result.kind = "returned") =>
              (result.ret = "maxAttempts" /\ result.checks = 0)

C23_Witness ==
    /\ mode = "wait" /\ cfg.MaxAttempts = MaxConfigured
    /\ result.ret = "maxAttempts" /\ result.checks = MaxConfigured

\* C24: when the context is cancelled while WaitForGeneration waits between
\* checks, the call returns the context's error and makes no further check
C24_CancelledWaitReturns ==
    [][/\ (mode = "wait" /\ result.kind = "waiting" /\ cancelled /\ result' # result)
          => (/\ result'.kind = "returned" /\ result'.ret = "ctxError"
              /\ result'.checks = result.checks)
       /\ (mode = "wait" /\ result.kind = "returned") => result' = result]_vars

C24_Witness ==
    /\ mode = "wait" /\ cancelled
    /\ result.kind = "returned" /\ result.ret = "ctxError" /\ result.checks >= 1
    /\ result.status \in {"INITIAL", "PROCESSING"}

\* C25: for a prompt of n code points and a limit L >= 0, truncatePrompt
\* returns the string of the first min(n, L) code points: the prompt itself
\* when n <= L, exactly L code points when n > L, and its last byte ends a
\* character
C25_PrefixOfCodePoints ==
    (mode = "prompt" /\ call.depth = 1 /\ result.kind = "returned"
       /\ call.length >= 0) =>
        LET n == Len(call.text)
            k == IF n <= call.length THEN n ELSE call.length
        IN /\ result.val = Encode(SubSeq(call.text, 1, k))
           /\ n <= call.length => result.val = call.s
           /\ n > call.length => RuneCountInString(result.val) = call.length
           /\ ~IsCont(call.s, Len(result.val) + 1)

C25_Witness ==
    /\ mode = "prompt" /\ call.depth = 1 /\ result.kind = "returned"
    /\ call.length = 2 /\ call.text = <<3, 2, 1>>
    /\ result.val = <<"L3", "C", "C", "L2", "C">>

\* C26: truncating a truncated prompt with the same limit returns it
\* unchanged
C26_Idempotent ==
    (mode = "prompt" /\ call.depth = 2 /\ result.kind = "returned") =>
        result.val = call.s

C26_Witness ==
    /\ mode = "prompt" /\ call.depth = 2 /\ result.kind = "returned"
    /\ Len(call.text) = 3 /\ call.length = 1
    /\ result.val = call.s /\ Len(result.val) = 4

C28_OneFieldAndUpdatedAt ==
    [][(mode = "store" /\ call.next = "exec" /\ call'.now # call.now) =>
         /\ \A i \in RowIds :
               /\ i # call.id => images'[i] = images[i]
               /\ images'[i].prompt = images[i].prompt
               /\ images'[i].created_at = images[i].created_at
               /\ call.op # "UpdateStatus" => images'[i].status = images[i].status
               /\ call.op # "UpdateUUID" => images'[i].uuid = images[i].uuid
               /\ call.op # "UpdateBase64" => images'[i].base64 = images[i].base64
         /\ (~result'.err /\ call.id \in RowIds) =>
               /\ images'[call.id].updated_at = call'.now
               /\ call.op = "UpdateStatus" => images'[call.id].status = call.val
               /\ call.op = "UpdateUUID" => images'[call.id].uuid = call.val
               /\ call.op = "UpdateBase64" => images'[call.id].base64 = call.val
         /\ result'.err => images' = images
         /\ call.applied = 1 =>
               \A i \in RowIds :
                  /\ images'[i].status = images[i].status
                  /\ images'[i].uuid = images[i].uuid
                  /\ images'[i].base64 = images[i].base64]_vars

C28_Witness ==
    /\ mode = "store" /\ call.op = "UpdateUUID" /\ call.applied = 2
    /\ call.id = 2 /\ call.val = "u1"
    /\ images[2].uuid = "u1" /\ images[2].status = "ReadyToGenerate"
    /\ images[2].updated_at = call.now /\ images[2].updated_at > 1
    /\ images[1].updated_at = 0

\* C31: no stuck jobs: whenever no stage is mid-job, every job with status
\* Generate has a non-empty correlation id, so GetAllReadyToCheck returns it
C31_NoStuckJobs ==
    NoStageMidJob =>
        \A i \in Ids : images[i].status = "Generate" => images[i].uuid # ""

\* C32: no duplicate submission: a job whose submission the remote service
\* accepted (200, or 201 with INITIAL and the uuid) is not submitted again
\* unless a status call since then answered that its uuid is unknown
C32_NoDuplicateSubmission ==
    [][\A p \in GenProcs :
         (pc[p] = "submit" /\ pc'[p] # "submit") => cur[p].ID \notin accepted]_vars

\* C33: the stored prompt is never modified: no step of either stage changes
\* the prompt of any row; the truncation to 999 code points is in the
\* request only
C33_PromptNeverWritten ==
    [][\A i \in DOMAIN images : images'[i].prompt = images[i].prompt]_vars

C33_Witness ==
    \E p \in GenProcs :
        /\ pc[p] = "range" /\ handled[p] = "submitted"
        /\ req[p].Prompt = LongPromptPrefix
        /\ images[cur[p].ID].prompt = LongPrompt
        /\ images[cur[p].ID].status = "Generate"

\* C34: continuous mode, one Submission loop and one Polling loop in one
\* process: in no reachable state do both loops have the same job between
\* reading it (in the batch of the tick) and finishing it
C34_NoSharedJob ==
    mode = "continuous" =>
        \A p \in GenProcs, q \in ChkProcs, i \in Ids :
            LET has(g) == \/ \E k \in 1..Len(batch[g]) : batch[g][k].ID = i
                          \/ MidJob(g) /\ cur[g].ID = i
            IN ~(has(p) /\ has(q))

\* C34 witness: the Submission loop is resubmitting the job that the Polling
\* loop has just reset after a 404
C34_Witness ==
    /\ mode = "continuous"
    /\ pc[<<"proc", 1>>] = "range" /\ handled[<<"proc", 1>>] = "reset"
    /\ cur[<<"proc", 1>>].ID = 1
    /\ MidJob(<<"gen", 1>>) /\ cur[<<"gen", 1>>].ID = 1

\* the two loops of continuous mode
Generator == <<"gen", 1>>
Processor == <<"proc", 1>>

\* a step of loop p in a run where no store write fails and the remote
\* service accepts every submission with a non-empty id
GoodStep(p) ==
    /\ \/ GenTick(p) \/ GenRange(p) \/ GenSubmit(p)
       \/ GenSetUUID(p) \/ GenSetGenerate(p)
       \/ ChkTick(p) \/ ChkRange(p) \/ ChkPoll(p) \/ ChkSaveBase64(p)
       \/ ChkSetPublish(p) \/ ChkSetFailed(p) \/ ChkResetUUID(p)
       \/ ChkResetStatus(p) \/ ChkSleep(p) \/ ChkNext(p)
    /\ ~storeFailed'
    /\ pc[p] = "submit" =>
          (pc'[p] = "setUUID" /\ resp'[p].kind = "ok" /\ resp'[p].UUID # "")

\* the status call for job i is answered DONE with a non-empty result list,
\* or FAILED
FinalAnswer(p, i) ==
    /\ GoodStep(p) /\ pc[p] = "poll" /\ cur[p].ID = i
    /\ pc'[p] \in {"saveBase64", "setFailed"}

\* continuous mode, the table holding new rows only
InitGood ==
    /\ images \in [Ids -> {NewRow(pr) : pr \in Prompts}]
    /\ rowLock = [i \in Ids |-> NoProc]
    /\ InitLocals
    /\ InitLib
    /\ InitConfig
    /\ mode = "continuous"
    /\ cancelled = FALSE
    /\ cronStopped = FALSE
    /\ cronMutex = FALSE
    /\ pc = [p \in Procs |-> IF p[2] = 1 THEN "select" ELSE "idle"]

NextGood == \E p \in {Generator, Processor} : GoodStep(p)

\* both loops keep running (tickers fire, goroutines are scheduled), and
\* each job that is polled again and again is at some poll answered DONE
\* with a result or FAILED
SpecGood ==
    /\ InitGood /\ [][NextGood]_vars
    /\ WF_vars(GoodStep(Generator)) /\ WF_vars(GoodStep(Processor))
    /\ \A i \in Ids : SF_vars(FinalAnswer(Processor, i))

\* C35: eventual completion in continuous mode: with no cancellation, store
\* writes succeeding, every submission accepted with a non-empty id and
\* every polled job eventually answered DONE with a result or FAILED, every
\* job in ReadyToGenerate with a non-empty prompt eventually reaches
\* ReadyToPublish or Failed
C35_EventualCompletion ==
    \A i \in Ids :
        (images[i].status = "ReadyToGenerate" /\ images[i].prompt # "")
            ~> (images[i].status \in {"ReadyToPublish", "Failed"})

C35_Witness ==
    /\ mode = "continuous" /\ ~cancelled /\ ~storeFailed
    /\ images[1].status = "ReadyToPublish" /\ images[1].base64 = "b1"
    /\ images[1].prompt = LongPrompt /\ images[1].uuid = "u1"
    /\ handled[Processor] = "done"

====
